---- MODULE Spec2Model ----
(***************************************************************************)
(* Model of src/index.js: the item registry (class InventoryScript) and    *)
(* the per-player inventory functions added to mp.Player.prototype.        *)
(*                                                                         *)
(* JavaScript runs the module single-threaded, but every emit() and every  *)
(* onUse hook hands control to foreign code that may call back into the    *)
(* module before the calling function continues.  The model therefore      *)
(* keeps a call stack (calls): a function that reaches an emit or a hook   *)
(* pushes a frame and stops there; the environment may start nested calls  *)
(* on top of it, and a later step of the function continues it.            *)
(***************************************************************************)
EXTENDS Integers, Sequences, FiniteSets, TLC

(***************************************************************************)
(* Bounds of the model.                                                    *)
(***************************************************************************)
MaxLen    == 2   \* give appends a stack only while the array is shorter
MaxTotal  == 3   \* give adds units only while the array holds no more in all
MaxDepth  == 2   \* frames on the call stack (1 = no re-entrant call)
MaxEvents == 5   \* events an observer keeps when it does not clear its log

Players == {"p1", "p2"}

(***************************************************************************)
(* JavaScript values.                                                      *)
(***************************************************************************)
\* A value passed where a string is expected: typeof and the string itself.
JsStr(s)    == [type |-> "string", str |-> s]
JsNotStr    == [type |-> "number", str |-> "5"]

\* A value passed where a number is expected.  "frac" stands for n + 0.5.
JsInt(n)    == [t |-> "int", n |-> n]
JsFrac(n)   == [t |-> "frac", n |-> n]
JsUndefNum  == [t |-> "undefined", n |-> 0]

\* Number.isInteger
NumberIsInteger(x) == x.t = "int"

\* The data payload of a stack: undefined, or an object with an identity
\* (id) and a content (c).  Two objects can have the same content.
Undef == [id |-> 0, c |-> "undefined"]
ObjA1 == [id |-> 1, c |-> "{hp:10}"]
ObjA2 == [id |-> 2, c |-> "{hp:10}"]

\* A plausible bug: comparing the payloads with === (identity).
isEqual_identity(a, b) == a.id = b.id

\* lodash.isequal: deep structural comparison; undefined equals undefined.
isEqual(a, b) == a.c = b.c

Stack(k, n, d) == [key |-> k, amount |-> n, data |-> d]

(***************************************************************************)
(* State.                                                                  *)
(***************************************************************************)
VARIABLES
    items,      \* inventoryScript._items: own properties in insertion
                \* order and the object's prototype
    inventory,  \* player -> reference of the array in player._inventory
    arrays,     \* the heap: array reference -> sequence of stacks
    calls,      \* the call stack of the module's functions, innermost last
    events,     \* what a subscriber to every event has recorded
    done        \* the call that returned in the last step, if any

vars == <<items, inventory, arrays, calls, events, done>>

NoRef   == 0
NumRefs == Cardinality(Players) + 2
Refs    == 1..NumRefs

(***************************************************************************)
(* The registry object _items = {} (line 7).                               *)
(***************************************************************************)
NoDef == [name |-> "", description |-> "", onUse |-> FALSE]
Def(name, description, onUse) ==
    [name |-> name, description |-> description, onUse |-> onUse]

\* Properties every object inherits from Object.prototype.
ObjectPrototypeKeys == {"hasOwnProperty", "toString", "constructor", "valueOf"}

OwnKeys(obj) == {obj.own[i].key : i \in 1..Len(obj.own)}
OwnIndex(obj, key) == CHOOSE i \in 1..Len(obj.own) : obj.own[i].key = key

\* obj[key]: own property, then the prototype chain.
\* kind "def": a definition object; "other": some other truthy value
\* (a function of Object.prototype, a string of an inherited definition).
GetProperty(obj, key) ==
    IF key \in OwnKeys(obj)
      THEN [kind |-> "def", def |-> obj.own[OwnIndex(obj, key)].def]
    ELSE IF key = "__proto__"
      THEN IF obj.proto = <<>> THEN [kind |-> "other", def |-> NoDef]
                               ELSE [kind |-> "def", def |-> obj.proto[1]]
    ELSE IF obj.proto # <<>> /\ key \in {"name", "description"}
      THEN [kind |-> "other", def |-> NoDef]
    ELSE IF obj.proto # <<>> /\ key = "onUse" /\ obj.proto[1].onUse
      THEN [kind |-> "other", def |-> NoDef]
    ELSE IF key \in ObjectPrototypeKeys
      THEN [kind |-> "other", def |-> NoDef]
    ELSE [kind |-> "undefined", def |-> NoDef]

\* obj[key] = def: "__proto__" is an accessor of Object.prototype whose
\* setter replaces the prototype; any other key becomes an own property.
SetProperty(obj, key, def) ==
    IF key = "__proto__"
      THEN [obj EXCEPT !.proto = <<def>>]
    ELSE IF key \in OwnKeys(obj)
      THEN [obj EXCEPT !.own[OwnIndex(obj, key)].def = def]
    ELSE [obj EXCEPT !.own = Append(@, [key |-> key, def |-> def])]

\* obj.hasOwnProperty(key): "TypeError" when the property hasOwnProperty of
\* obj is not the function of Object.prototype but an own definition.
HasOwnProperty(obj, key) ==
    IF "hasOwnProperty" \in OwnKeys(obj) THEN "TypeError"
    ELSE IF key \in OwnKeys(obj) THEN "true"
    ELSE "false"

\* InventoryScript.hasItem (lines 53-55)
ScriptHasItem(key) == HasOwnProperty(items, key)

\* InventoryScript.getItem (lines 62-64)
GetItem(key) == GetProperty(items, key)

IsIntegerKey(k) == k \in {"0", "1", "2", "3"}
IntegerKeyValue(k) == CASE k = "0" -> 0 [] k = "1" -> 1 [] k = "2" -> 2 [] k = "3" -> 3

\* Object.keys: the own keys that are array indices in ascending numeric
\* order, then the other own keys in insertion order.
RECURSIVE InsertByValue(_, _)
InsertByValue(sorted, k) ==
    IF sorted = <<>> THEN <<k>>
    ELSE IF IntegerKeyValue(k) < IntegerKeyValue(Head(sorted))
      THEN <<k>> \o sorted
    ELSE <<Head(sorted)>> \o InsertByValue(Tail(sorted), k)

RECURSIVE IntegerKeysSorted(_)
IntegerKeysSorted(own) ==
    IF own = <<>> THEN <<>>
    ELSE IF IsIntegerKey(own[Len(own)].key)
      THEN InsertByValue(IntegerKeysSorted(SubSeq(own, 1, Len(own) - 1)), own[Len(own)].key)
    ELSE IntegerKeysSorted(SubSeq(own, 1, Len(own) - 1))

RECURSIVE StringKeysInOrder(_)
StringKeysInOrder(own) ==
    IF own = <<>> THEN <<>>
    ELSE IF IsIntegerKey(Head(own).key) THEN StringKeysInOrder(Tail(own))
    ELSE <<Head(own).key>> \o StringKeysInOrder(Tail(own))

ObjectKeys(obj) == IntegerKeysSorted(obj.own) \o StringKeysInOrder(obj.own)

\* InventoryScript.getAllItems (lines 70-72)
GetAllItems == ObjectKeys(items)

(***************************************************************************)
(* Events.  depth is the depth of the frame that emitted the event and by  *)
(* says from where that function was called: "top" (the host), "onUse" (an *)
(* onUse hook) or "subscriber" (a listener of an event being emitted).     *)
(***************************************************************************)
NoEvent ==
    [ev |-> "", p |-> "", idx |-> 0, key |-> "", amount |-> 0, data |-> Undef,
     name |-> "", description |-> "", old |-> NoRef, new |-> NoRef,
     depth |-> 0, by |-> ""]

EventNames(evs) == [i \in 1..Len(evs) |-> evs[i].ev]

\* The pc values at which a frame has handed control to foreign code.
CallerOf(stack) ==
    IF stack = <<>> THEN "top"
    ELSE IF stack[Len(stack)].pc = "onUse" THEN "onUse"
    ELSE "subscriber"

\* What the observer has recorded when a call starts: at top level it may
\* have cleared its log; inside a running call it never does.
LogAt(clear) == IF calls = <<>> /\ clear THEN <<>> ELSE events

(***************************************************************************)
(* Frames and returned calls.                                              *)
(***************************************************************************)
NoSeq == <<>>
Frame(op, p, pc, idx, amount, key, data, pre, ev0) ==
    [op |-> op, p |-> p, pc |-> pc, idx |-> idx, amount |-> amount,
     key |-> key, data |-> data, pre |-> pre, ev0 |-> ev0, nested |-> FALSE,
     todo |-> <<>>]
\* op: the function; p: the player (this); pc: where the function waits;
\* idx, amount, key, data: its arguments and the key and data of the stack
\* it holds in item (for setInventory key is the kind of its argument);
\* pre: the player's inventory when it was called; ev0: the events recorded
\* before it was called; nested: whether a call was made while it waited;
\* todo: the places where it will wait after the one it waits at.

NoCall ==
    [op |-> "", p |-> "", ret |-> "", idx |-> JsUndefNum, amount |-> JsUndefNum,
     key |-> "", data |-> Undef, pre |-> NoSeq, ev0 |-> 0, nested |-> FALSE,
     depth |-> 0, by |-> "", args |-> <<>>]

Returned(op, p, ret, idx, amount, key, data, pre, ev0, nested, depth, by) ==
    [op |-> op, p |-> p, ret |-> ret, idx |-> idx, amount |-> amount,
     key |-> key, data |-> data, pre |-> pre, ev0 |-> ev0, nested |-> nested,
     depth |-> depth, by |-> by, args |-> <<>>]

\* A function can be called by the host when nothing runs, or by the
\* foreign code the innermost frame is waiting for.
CanCall == Len(calls) < MaxDepth

\* The stack with the innermost frame marked as having made a nested call.
MarkNested(stack) ==
    IF stack = <<>> THEN stack
    ELSE [stack EXCEPT ![Len(stack)].nested = TRUE]

Top == calls[Len(calls)]
Pop == SubSeq(calls, 1, Len(calls) - 1)

\* player._inventory read as a sequence
Inv(p) == arrays[inventory[p]]
Joined(p) == inventory[p] # NoRef

(***************************************************************************)
(* The heap.  A reference has no meaning but its identity, so the live     *)
(* arrays are kept numbered in the order in which the players and the      *)
(* recorded events refer to them; an array nothing refers to is dropped.   *)
(***************************************************************************)
PlayerSeq == <<"p1", "p2">>

RECURSIVE EventRefSeq(_)
EventRefSeq(evs) ==
    IF evs = <<>> THEN <<>>
    ELSE <<Head(evs).old, Head(evs).new>> \o EventRefSeq(Tail(evs))

RECURSIVE FirstOccurrences(_, _)
FirstOccurrences(seq, acc) ==
    IF seq = <<>> THEN acc
    ELSE IF Head(seq) = NoRef \/ \E i \in 1..Len(acc) : acc[i] = Head(seq)
      THEN FirstOccurrences(Tail(seq), acc)
    ELSE FirstOccurrences(Tail(seq), Append(acc, Head(seq)))

LiveOrder(inv, evs) ==
    FirstOccurrences([i \in 1..Len(PlayerSeq) |-> inv[PlayerSeq[i]]]
                     \o EventRefSeq(evs), <<>>)

Reachable(inv, evs) ==
    {LiveOrder(inv, evs)[i] : i \in 1..Len(LiveOrder(inv, evs))}
FreeRefs(inv, evs) == Refs \ Reachable(inv, evs)
FreshRef(inv, evs) ==
    CHOOSE x \in FreeRefs(inv, evs) : \A y \in FreeRefs(inv, evs) : x <= y

\* The next values of inventory, arrays and events.
Install(inv, arrs, evs) ==
    LET order == LiveOrder(inv, evs)
        number(r) == IF r = NoRef THEN NoRef
                     ELSE CHOOSE i \in 1..Len(order) : order[i] = r
    IN  /\ inventory' = [p \in Players |-> number(inv[p])]
        /\ arrays' = [r \in Refs |-> IF r <= Len(order) THEN arrs[order[r]] ELSE <<>>]
        /\ events' = [i \in 1..Len(evs) |->
                        [evs[i] EXCEPT !.old = number(@), !.new = number(@)]]

(***************************************************************************)
(* Initial state: the module has been loaded (lines 5-8, 95).              *)
(***************************************************************************)
Init ==
    /\ items = [own |-> <<>>, proto |-> <<>>]
    /\ inventory = [p \in Players |-> NoRef]
    /\ arrays = [r \in Refs |-> <<>>]
    /\ calls = <<>>
    /\ events = <<>>
    /\ done = NoCall

(***************************************************************************)
(* InventoryScript.addItem (lines 21-46).  Called by the host only.        *)
(***************************************************************************)
AddItemResult(key, name, description) ==
    IF key.type # "string" \/ key.str = "" THEN "null"
    ELSE IF name.type # "string" \/ name.str = "" THEN "null"
    ELSE IF description.type # "string" THEN "null"
    ELSE CASE HasOwnProperty(items, key.str) = "TypeError" -> "TypeError"
           [] HasOwnProperty(items, key.str) = "true" -> "null"
           [] OTHER -> "def"

AddItem(key, name, description, onUse, clear) ==
    /\ calls = <<>>
    /\ LET res == AddItemResult(key, name, description)
           log == LogAt(clear)
       IN  /\ Len(log) < MaxEvents
           /\ IF res = "def"
                THEN /\ items' = SetProperty(items, key.str,
                                             Def(name.str, description.str, onUse))
                     /\ Install(inventory, arrays, Append(log,
                            [NoEvent EXCEPT !.ev = "itemDefined", !.key = key.str,
                                            !.name = name.str,
                                            !.description = description.str,
                                            !.depth = 1, !.by = "top"]))
                ELSE /\ items' = items
                     /\ Install(inventory, arrays, log)
           /\ done' = [NoCall EXCEPT !.op = "addItem", !.ret = res,
                                     !.key = key.str, !.depth = 1, !.by = "top",
                                     !.ev0 = Len(log),
                                     !.args = <<key, name, description>>]
    /\ UNCHANGED calls

(***************************************************************************)
(* playerJoin handler (lines 269-271): player._inventory = [].             *)
(***************************************************************************)
PlayerJoin(p) ==
    /\ calls = <<>>
    /\ ~Joined(p)
    /\ FreeRefs(inventory, events) # {}
    /\ LET r == FreshRef(inventory, events)
       IN  Install([inventory EXCEPT ![p] = r], [arrays EXCEPT ![r] = <<>>], events)
    /\ done' = NoCall
    /\ UNCHANGED <<items, calls>>

(***************************************************************************)
(* Array helpers.  Indices are JavaScript indices (from 0).                *)
(***************************************************************************)
At(seq, i) == seq[i + 1]
\* this._inventory[itemIdx] is an object (truthy)
HasIndex(seq, i) == i >= 0 /\ i < Len(seq)

\* Array.prototype.findIndex: -1 when no element matches
RECURSIVE FindFrom(_, _, _, _)
FindFrom(seq, key, data, i) ==
    IF i >= Len(seq) THEN -1
    ELSE IF At(seq, i).key = key /\ isEqual(At(seq, i).data, data) THEN i
    ELSE FindFrom(seq, key, data, i + 1)

\* getItemIndexWithData (lines 158-160)
GetItemIndexWithData(seq, key, data) == FindFrom(seq, key, data, 0)

RECURSIVE FindKeyFrom(_, _, _)
FindKeyFrom(seq, key, i) ==
    IF i >= Len(seq) THEN -1
    ELSE IF At(seq, i).key = key THEN i
    ELSE FindKeyFrom(seq, key, i + 1)

\* getItemIndex (lines 148-150)
GetItemIndex(seq, key) == FindKeyFrom(seq, key, 0)

\* hasItem (lines 129-131)
HasItem(seq, key) == GetItemIndex(seq, key) # -1

\* hasItemWithData (lines 139-141)
HasItemWithData(seq, key, data) == GetItemIndexWithData(seq, key, data) # -1

\* getItemAmount (lines 167-171)
RECURSIVE GetItemAmount(_, _)
GetItemAmount(seq, key) ==
    IF seq = <<>> THEN 0
    ELSE (IF Head(seq).key = key THEN Head(seq).amount ELSE 0)
         + GetItemAmount(Tail(seq), key)

\* getItemAmountWithData (lines 179-183)
RECURSIVE GetItemAmountWithData(_, _, _)
GetItemAmountWithData(seq, key, data) ==
    IF seq = <<>> THEN 0
    ELSE (IF Head(seq).key = key /\ isEqual(Head(seq).data, data)
            THEN Head(seq).amount ELSE 0)
         + GetItemAmountWithData(Tail(seq), key, data)

\* getTotalItemAmount (lines 189-193)
RECURSIVE GetTotalItemAmount(_)
GetTotalItemAmount(seq) ==
    IF seq = <<>> THEN 0
    ELSE Head(seq).amount + GetTotalItemAmount(Tail(seq))

\* A plausible bug: splice(i) without a delete count drops the rest as well.
Splice_toEnd(seq, i) == SubSeq(seq, 1, i)

\* Array.prototype.splice(i, 1)
Splice(seq, i) == SubSeq(seq, 1, i) \o SubSeq(seq, i + 2, Len(seq))

(***************************************************************************)
(* A call that fails its precondition returns at once; a call that throws  *)
(* unwinds every frame (nothing in the module catches).                    *)
(***************************************************************************)
ReturnAtOnce(op, p, ret, idx, amount, key, data, log) ==
    /\ done' = Returned(op, p, ret, idx, amount, key, data, Inv(p), Len(log),
                        FALSE, Len(calls) + 1, CallerOf(calls))
    /\ calls' = IF ret = "TypeError" THEN <<>> ELSE MarkNested(calls)
    /\ Install(inventory, arrays, log)
    /\ UNCHANGED items

\* The innermost frame returns ret.
ReturnTop(ret) ==
    /\ done' = Returned(Top.op, Top.p, ret, Top.idx, Top.amount, Top.key,
                        Top.data, Top.pre, Top.ev0, Top.nested, Len(calls),
                        CallerOf(Pop))
    /\ calls' = IF ret = "TypeError" THEN <<>> ELSE Pop

\* A new call may emit at most two events and every frame below it at most
\* one more, so the log never exceeds MaxEvents.
RoomFor(log) == Len(log) + 2 + Len(calls) <= MaxEvents

Emit(log, ev, p, idx, key, amount, data, depth, by) ==
    Append(log, [NoEvent EXCEPT !.ev = ev, !.p = p, !.idx = idx, !.key = key,
                                !.amount = amount, !.data = data,
                                !.depth = depth, !.by = by])

(***************************************************************************)
(* mp.Player.prototype.giveItem (lines 203-222)                            *)
(***************************************************************************)
\* line 204
GiveItemValid(itemKey, amount) ==
    ScriptHasItem(itemKey) = "true" /\ NumberIsInteger(amount) /\ amount.n > 0

\* lines 205-215
GiveItemApply(seq, itemKey, n, data) ==
    LET itemIdx == GetItemIndexWithData(seq, itemKey, data)
    IN  IF itemIdx # -1
          THEN [seq EXCEPT ![itemIdx + 1].amount = @ + n]
          ELSE Append(seq, Stack(itemKey, n, data))

GiveItem(p, itemKey, amount, data, clear) ==
    /\ CanCall
    /\ Joined(p)
    /\ LET log == LogAt(clear)
       IN  IF ScriptHasItem(itemKey) = "TypeError"
             THEN ReturnAtOnce("giveItem", p, "TypeError", JsUndefNum, amount,
                               itemKey, data, log)
           ELSE IF ~GiveItemValid(itemKey, amount)
             THEN ReturnAtOnce("giveItem", p, "false", JsUndefNum, amount,
                               itemKey, data, log)
           ELSE LET new == GiveItemApply(Inv(p), itemKey, amount.n, data)
                IN  /\ RoomFor(log)
                    /\ Len(new) <= MaxLen
                    /\ GetTotalItemAmount(new) <= MaxTotal
                    /\ Install(inventory, [arrays EXCEPT ![inventory[p]] = new],
                               Emit(log, "itemAdded", p, 0, itemKey, amount.n,
                                    data, Len(calls) + 1, CallerOf(calls)))
                    /\ calls' = Append(MarkNested(calls),
                                  Frame("giveItem", p, "emitAdded", JsUndefNum,
                                        amount, itemKey, data, Inv(p), Len(log)))
                    /\ done' = NoCall
                    /\ UNCHANGED items

\* the listeners of itemAdded have run: return true (line 218)
GiveItemReturn ==
    /\ calls # <<>>
    /\ Top.op = "giveItem" /\ Top.pc = "emitAdded"
    /\ ReturnTop("true")
    /\ UNCHANGED <<items, inventory, arrays, events>>

(***************************************************************************)
(* mp.Player.prototype.useItem (lines 230-241)                             *)
(***************************************************************************)
\* A plausible bug: the index is not checked to be an integer.
UseItemValid_anyNumber(seq, itemIdx) ==
    itemIdx.t # "undefined" /\ HasIndex(seq, itemIdx.n)

\* line 231
UseItemValid(seq, itemIdx) == NumberIsInteger(itemIdx) /\ HasIndex(seq, itemIdx.n)

\* A plausible bug: using an item consumes one unit of its stack.
UseItemEffect_consume(seq, i) == [seq EXCEPT ![i + 1].amount = @ - 1]

\* lines 232-237: useItem reads the stack at itemIdx and writes nothing to
\* this._inventory.
UseItemEffect(seq, i) == seq

\* line 234: itemDef && typeof itemDef.onUse === "function"
HasOnUse(itemDef) == itemDef.kind = "def" /\ itemDef.def.onUse

\* A plausible bug: itemUsed is emitted before the hook is called.
UseItemSteps_emitFirst(itemDef) ==
    IF HasOnUse(itemDef) THEN <<"emitUsed", "onUse">> ELSE <<"emitUsed">>

\* lines 234-236: where useItem hands control to foreign code, in order:
\* the onUse hook if the definition has one, then the listeners of itemUsed.
UseItemSteps(itemDef) ==
    IF HasOnUse(itemDef) THEN <<"onUse", "emitUsed">> ELSE <<"emitUsed">>

UseItem(p, itemIdx, clear) ==
    /\ CanCall
    /\ Joined(p)
    /\ LET log == LogAt(clear)
       IN  IF ~UseItemValid(Inv(p), itemIdx)
             THEN ReturnAtOnce("useItem", p, "false", itemIdx, JsUndefNum, "",
                               Undef, log)
           ELSE LET item == At(Inv(p), itemIdx.n)
                    itemDef == GetItem(item.key)
                    steps == UseItemSteps(itemDef)
                    heap == [arrays EXCEPT ![inventory[p]] =
                                               UseItemEffect(@, itemIdx.n)]
                    frame == Frame("useItem", p, Head(steps), itemIdx, JsUndefNum,
                                   item.key, item.data, Inv(p), Len(log))
                IN  /\ RoomFor(log)
                    /\ Install(inventory, heap,
                               IF Head(steps) = "emitUsed"
                                 THEN Emit(log, "itemUsed", p, itemIdx.n, item.key,
                                           0, item.data, Len(calls) + 1,
                                           CallerOf(calls))
                                 ELSE log)
                    /\ calls' = Append(MarkNested(calls),
                                       [frame EXCEPT !.todo = Tail(steps)])
                    /\ done' = NoCall
                    /\ UNCHANGED items

\* A plausible bug: the stack is read again at the index after the hook ran.
UsedItem_readAgain(frame) ==
    IF HasIndex(Inv(frame.p), frame.idx.n)
      THEN [key |-> At(Inv(frame.p), frame.idx.n).key,
            data |-> At(Inv(frame.p), frame.idx.n).data]
      ELSE [key |-> "", data |-> Undef]

\* line 232: const item = this._inventory[itemIdx], read before the hook
\* runs; line 236 emits item.key and item.data
UsedItem(frame) == [key |-> frame.key, data |-> frame.data]

\* the foreign code useItem waited for has returned and another is to run:
\* after the onUse hook, emit itemUsed (line 236)
UseItemEmit ==
    /\ calls # <<>>
    /\ Top.op = "useItem" /\ Top.todo # <<>>
    /\ events' = IF Head(Top.todo) = "emitUsed"
                   THEN Emit(events, "itemUsed", Top.p, Top.idx.n,
                             UsedItem(Top).key, 0, UsedItem(Top).data,
                             Len(calls), CallerOf(Pop))
                   ELSE events
    /\ calls' = [calls EXCEPT ![Len(calls)].pc = Head(Top.todo),
                              ![Len(calls)].todo = Tail(Top.todo)]
    /\ done' = NoCall
    /\ UNCHANGED <<items, inventory, arrays>>

\* the listeners of itemUsed have run: return true (line 237)
UseItemReturn ==
    /\ calls # <<>>
    /\ Top.op = "useItem" /\ Top.todo = <<>>
    /\ ReturnTop("true")
    /\ UNCHANGED <<items, inventory, arrays, events>>

(***************************************************************************)
(* mp.Player.prototype.removeItem (lines 251-266)                          *)
(***************************************************************************)
\* the default parameter amount = 1 (line 251)
DefaultAmount(amount) == IF amount.t = "undefined" THEN JsInt(1) ELSE amount

\* A plausible bug: an amount greater than the stack's is refused.
RemoveItemValid_atMostStack(seq, itemIdx, amount) ==
    /\ NumberIsInteger(itemIdx) /\ HasIndex(seq, itemIdx.n)
    /\ NumberIsInteger(amount) /\ amount.n > 0
    /\ amount.n <= At(seq, itemIdx.n).amount

\* line 252
RemoveItemValid(seq, itemIdx, amount) ==
    /\ NumberIsInteger(itemIdx) /\ HasIndex(seq, itemIdx.n)
    /\ NumberIsInteger(amount) /\ amount.n > 0

\* A plausible bug: the stack is kept until its amount is negative.
RemoveItemGone_negative(stack) == stack.amount < 0

\* A plausible bug: the last unit of a stack cannot be kept.
RemoveItemGone_atMostOne(stack) == stack.amount <= 1

\* line 257
RemoveItemGone(stack) == stack.amount < 1

RemoveItem(p, itemIdx, amountArg, clear) ==
    /\ CanCall
    /\ Joined(p)
    /\ LET log == LogAt(clear)
           amount == DefaultAmount(amountArg)
       IN  IF ~RemoveItemValid(Inv(p), itemIdx, amount)
             THEN ReturnAtOnce("removeItem", p, "false", itemIdx, amount, "",
                               Undef, log)
           ELSE LET item == At(Inv(p), itemIdx.n)
                IN  /\ RoomFor(log)
                    /\ Install(inventory,
                               [arrays EXCEPT ![inventory[p]][itemIdx.n + 1].amount =
                                                   @ - amount.n],
                               Emit(log, "itemRemoved", p, itemIdx.n, item.key,
                                    amount.n, item.data, Len(calls) + 1,
                                    CallerOf(calls)))
                    /\ calls' = Append(MarkNested(calls),
                          Frame("removeItem", p, "emitRemoved", itemIdx, amount,
                                item.key, item.data, Inv(p), Len(log)))
                    /\ done' = NoCall
                    /\ UNCHANGED items

\* the listeners of itemRemoved have run: lines 257-262.  Reading .amount of
\* this._inventory[itemIdx] throws when nothing is at itemIdx any more.
RemoveItemCheck ==
    /\ calls # <<>>
    /\ Top.op = "removeItem" /\ Top.pc = "emitRemoved"
    /\ LET seq == Inv(Top.p)
           i == Top.idx.n
       IN  IF ~HasIndex(seq, i)
             THEN /\ ReturnTop("TypeError")
                  /\ UNCHANGED <<arrays, events>>
           ELSE IF RemoveItemGone(At(seq, i))
             THEN /\ arrays' = [arrays EXCEPT ![inventory[Top.p]] = Splice(seq, i)]
                  /\ events' = Emit(events, "itemRemovedCompletely", Top.p, 0,
                                    Top.key, 0, Top.data, Len(calls),
                                    CallerOf(Pop))
                  /\ calls' = [calls EXCEPT ![Len(calls)].pc = "emitRemovedCompletely"]
                  /\ done' = NoCall
           ELSE /\ ReturnTop("true")
                /\ UNCHANGED <<arrays, events>>
    /\ UNCHANGED <<items, inventory>>

\* the listeners of itemRemovedCompletely have run: return true (line 262)
RemoveItemReturn ==
    /\ calls # <<>>
    /\ Top.op = "removeItem" /\ Top.pc = "emitRemovedCompletely"
    /\ ReturnTop("true")
    /\ UNCHANGED <<items, inventory, arrays, events>>

(***************************************************************************)
(* mp.Player.prototype.setInventory (lines 112-122).  The argument is not  *)
(* an array, a new array, or an array the caller got from getInventory     *)
(* (lines 102-104) or from an inventoryReplaced event.                     *)
(***************************************************************************)
NotArray == [kind |-> "notArray", seq |-> <<>>, ref |-> NoRef]
NewArray(seq) == [kind |-> "new", seq |-> seq, ref |-> NoRef]
SameArray(r) == [kind |-> "ref", seq |-> <<>>, ref |-> r]

\* line 113
ArrayIsArray(arg) == arg.kind # "notArray"

\* A plausible bug: the old inventory is read after the new one is assigned.
OldInventory_afterAssignment(p, r) == r

\* line 114: const oldInventory = this._inventory, read before line 115
\* assigns the new array (r)
OldInventory(p, r) == inventory[p]

SetInventory(p, newInventory, clear) ==
    /\ CanCall
    /\ Joined(p)
    /\ LET log == LogAt(clear)
       IN  IF ~ArrayIsArray(newInventory)
             THEN ReturnAtOnce("setInventory", p, "false", JsUndefNum,
                               JsUndefNum, newInventory.kind, Undef, log)
           ELSE /\ RoomFor(log)
                /\ newInventory.kind = "ref" =>
                       newInventory.ref \in Reachable(inventory, events)
                /\ newInventory.kind = "new" => FreeRefs(inventory, events) # {}
                /\ LET r == IF newInventory.kind = "ref" THEN newInventory.ref
                            ELSE FreshRef(inventory, events)
                       oldInventory == OldInventory(p, r)
                       heap == IF newInventory.kind = "new"
                                 THEN [arrays EXCEPT ![r] = newInventory.seq]
                                 ELSE arrays
                   IN  /\ Install([inventory EXCEPT ![p] = r], heap,
                                  Append(log,
                                    [NoEvent EXCEPT !.ev = "inventoryReplaced",
                                                    !.p = p,
                                                    !.old = oldInventory, !.new = r,
                                                    !.depth = Len(calls) + 1,
                                                    !.by = CallerOf(calls)]))
                       /\ calls' = Append(MarkNested(calls),
                             Frame("setInventory", p, "emitReplaced", JsUndefNum,
                                   JsUndefNum, newInventory.kind, Undef, Inv(p),
                                   Len(log)))
                       /\ done' = NoCall
                       /\ UNCHANGED items

\* the listeners of inventoryReplaced have run: return true (line 118)
SetInventoryReturn ==
    /\ calls # <<>>
    /\ Top.op = "setInventory" /\ Top.pc = "emitReplaced"
    /\ ReturnTop("true")
    /\ UNCHANGED <<items, inventory, arrays, events>>

(***************************************************************************)
(* Inputs.                                                                 *)
(***************************************************************************)
DataValues == {Undef, ObjA1, ObjA2}

\* Item keys of the ledger: two that the host registers and one it never does.
ItemKeys == {"item_medkit", "item_tool", "item_none"}
\* The definitions the host registers at startup, in this order: the medkit
\* has an onUse hook, the tool has none.
Registrations == << <<"item_medkit", TRUE>>, <<"item_tool", FALSE>> >>

\* giveItem(key, amount, data): the medkit with every positive amount and
\* data, the other keys with every positive amount, and the medkit with each
\* kind of bad amount.
GiveInputs ==
    {<<"item_medkit", JsInt(n), d>> : n \in 1..MaxTotal, d \in DataValues}
    \cup {<<k, JsInt(n), Undef>> : k \in ItemKeys, n \in 1..MaxTotal}
    \cup {<<"item_medkit", a, Undef>> :
             a \in {JsInt(0), JsInt(-1), JsFrac(1), JsUndefNum}}

\* removeItem(index, amount): every index in range with every positive
\* amount a stack can hold and with the default amount;
\* each kind of bad index; each kind of bad amount.
RemoveInputs ==
    {<<JsInt(i), a>> : i \in 0..(MaxLen - 1),
                       a \in {JsInt(n) : n \in 1..MaxTotal} \cup {JsUndefNum}}
    \cup {<<i, JsInt(1)>> : i \in {JsInt(-1), JsInt(MaxLen), JsFrac(0), JsUndefNum}}
    \cup {<<JsInt(0), a>> : a \in {JsInt(0), JsInt(-1), JsFrac(1)}}

\* useItem(index)
UseInputs ==
    {JsInt(i) : i \in -1..MaxLen} \cup {JsFrac(0), JsUndefNum}

\* Arrays loaded through setInventory, e.g. from persistence: nothing in
\* setInventory looks at the elements.
LoadedArrays ==
    { <<>>,
      <<Stack("item_none", 1, Undef)>>,
      <<Stack("item_medkit", 0, Undef)>>,
      <<Stack("item_tool", 1, ObjA1), Stack("item_tool", 1, ObjA2)>> }

SetInventoryArgs ==
    {NotArray} \cup {NewArray(s) : s \in LoadedArrays} \cup {SameArray(r) : r \in Refs}

(***************************************************************************)
(* The ledger of one player whose hooks and listeners do not call back     *)
(* into the module: every call is made by the host.                        *)
(***************************************************************************)
Next ==
    \/ \E i \in 1..Len(Registrations) :
          /\ Len(items.own) = i - 1
          /\ AddItem(JsStr(Registrations[i][1]), JsStr("Name"), JsStr(""),
                     Registrations[i][2], TRUE)
    \/ PlayerJoin("p1")
    \/ /\ calls = <<>>
       /\ \E in \in GiveInputs : GiveItem("p1", in[1], in[2], in[3], TRUE)
    \/ GiveItemReturn
    \/ /\ calls = <<>>
       /\ \E i \in UseInputs : UseItem("p1", i, TRUE)
    \/ UseItemEmit
    \/ UseItemReturn
    \/ /\ calls = <<>>
       /\ \E in \in RemoveInputs : RemoveItem("p1", in[1], in[2], TRUE)
    \/ RemoveItemCheck
    \/ RemoveItemReturn
    \/ /\ calls = <<>>
       /\ \E arg \in SetInventoryArgs : SetInventory("p1", arg, TRUE)
    \/ SetInventoryReturn

Spec == Init /\ [][Next]_vars

(***************************************************************************)
(* The registry: the host registers definitions under any keys, a player   *)
(* joins and is given items.  The observer never clears its log, so the    *)
(* log is the whole history.                                               *)
(***************************************************************************)
RegistryKeys ==
    {JsStr("item_medkit"), JsStr("2"), JsStr("1"), JsStr("__proto__"),
     JsStr("hasOwnProperty"), JsStr(""), JsNotStr}

\* addItem(key, name, description, onUse): every key with a good name and
\* description, the medkit with a hook, and each kind of bad name and
\* description.
RegisterInputs ==
    {<<k, JsStr("Name"), JsStr(""), FALSE>> : k \in RegistryKeys}
    \cup {<<JsStr("item_medkit"), JsStr("Medkit"), JsStr("Heals 10 HP"), TRUE>>}
    \cup {<<JsStr("item_medkit"), n, JsStr(""), FALSE>> : n \in {JsStr(""), JsNotStr}}
    \cup {<<JsStr("item_medkit"), JsStr("Name"), JsNotStr, FALSE>>}

RegistryGiveInputs ==
    {<<k, JsInt(n)>> : k \in {"item_medkit", "item_none", "hasOwnProperty"},
                       n \in 0..1}

NextRegistry ==
    \/ \E in \in RegisterInputs : AddItem(in[1], in[2], in[3], in[4], FALSE)
    \/ PlayerJoin("p1")
    \/ /\ calls = <<>>
       /\ \E in \in RegistryGiveInputs : GiveItem("p1", in[1], in[2], Undef, FALSE)
    \/ GiveItemReturn

SpecRegistry == Init /\ [][NextRegistry]_vars

(***************************************************************************)
(* The medkit scenario: the host registers the medkit with an onUse hook   *)
(* that calls removeItem(index) or removeItem(index, 1) on the player and  *)
(* the index it was given; the player joins, is given medkits and uses     *)
(* them.  The observer may clear its log before a give, not later.         *)
(***************************************************************************)
NextMedkit ==
    \/ /\ items.own = <<>>
       /\ AddItem(JsStr("item_medkit"), JsStr("Medkit"), JsStr("Heals 10 HP"),
                  TRUE, TRUE)
    \/ PlayerJoin("p1")
    \/ /\ calls = <<>>
       /\ \E n \in 1..MaxTotal, d \in DataValues, clear \in BOOLEAN :
             GiveItem("p1", "item_medkit", JsInt(n), d, clear)
    \/ GiveItemReturn
    \/ /\ calls = <<>>
       /\ \E i \in 0..(MaxLen - 1) : UseItem("p1", JsInt(i), FALSE)
    \/ /\ calls # <<>> /\ Top.op = "useItem" /\ Top.pc = "onUse" /\ ~Top.nested
       /\ \E a \in {JsInt(1), JsUndefNum} : RemoveItem(Top.p, Top.idx, a, FALSE)
    \/ RemoveItemCheck
    \/ RemoveItemReturn
    \/ /\ UseItemEmit
       /\ Top.pc = "onUse" => Top.nested
    \/ /\ UseItemReturn
       /\ Top.pc = "onUse" => Top.nested

SpecMedkit == Init /\ [][NextMedkit]_vars

(***************************************************************************)
(* Two players: the host gives, uses, removes and replaces inventories,    *)
(* and passes to setInventory new arrays, the array a player's             *)
(* getInventory() returns, or an array of an inventoryReplaced event.  The *)
(* observer may keep the event of one call across a call of setInventory.  *)
(***************************************************************************)
SharedArrays == { <<>>, <<Stack("item_none", 1, Undef)>> }

SharedArgs == {NewArray(s) : s \in SharedArrays} \cup {SameArray(r) : r \in Refs}

NextShared ==
    \/ /\ items.own = <<>>
       /\ AddItem(JsStr("item_medkit"), JsStr("Medkit"), JsStr(""), FALSE, TRUE)
    \/ \E p \in Players : PlayerJoin(p)
    \/ /\ calls = <<>>
       /\ \E p \in Players : GiveItem(p, "item_medkit", JsInt(1), Undef, TRUE)
    \/ GiveItemReturn
    \/ /\ calls = <<>>
       /\ \E p \in Players : UseItem(p, JsInt(0), TRUE)
    \/ UseItemReturn
    \/ /\ calls = <<>>
       /\ \E p \in Players : RemoveItem(p, JsInt(0), JsInt(1), TRUE)
    \/ RemoveItemCheck
    \/ RemoveItemReturn
    \/ /\ calls = <<>>
       /\ \E p \in Players, arg \in SharedArgs, clear \in BOOLEAN :
             /\ ~clear => Len(events) <= 1
             /\ SetInventory(p, arg, clear)
    \/ SetInventoryReturn

SpecShared == Init /\ [][NextShared]_vars

(***************************************************************************)
(* A subscriber of itemRemoved that calls back: while removeItem waits in  *)
(* emit("itemRemoved") (line 255), the listener calls giveItem, removeItem *)
(* or setInventory on the same player, once.  All other calls are made by  *)
(* the host.                                                               *)
(***************************************************************************)
InSubscriberOfItemRemoved ==
    /\ calls # <<>>
    /\ Top.op = "removeItem" /\ Top.pc = "emitRemoved" /\ ~Top.nested

NextSubscriber ==
    \/ \E i \in 1..Len(Registrations) :
          /\ Len(items.own) = i - 1
          /\ AddItem(JsStr(Registrations[i][1]), JsStr("Name"), JsStr(""),
                     FALSE, TRUE)
    \/ PlayerJoin("p1")
    \/ /\ calls = <<>>
       /\ \E k \in {"item_medkit", "item_tool"}, n \in 1..MaxTotal :
             GiveItem("p1", k, JsInt(n), Undef, TRUE)
    \/ /\ InSubscriberOfItemRemoved
       /\ \E k \in {"item_medkit", "item_tool"} :
             GiveItem(Top.p, k, JsInt(1), Undef, FALSE)
    \/ GiveItemReturn
    \/ /\ calls = <<>>
       /\ \E i \in 0..(MaxLen - 1), n \in 1..2 :
             RemoveItem("p1", JsInt(i), JsInt(n), TRUE)
    \/ /\ InSubscriberOfItemRemoved
       /\ \E i \in 0..(MaxLen - 1) : RemoveItem(Top.p, JsInt(i), JsInt(1), FALSE)
    \/ RemoveItemCheck
    \/ RemoveItemReturn
    \/ /\ InSubscriberOfItemRemoved
       /\ SetInventory(Top.p, NewArray(<<>>), FALSE)
    \/ SetInventoryReturn

SpecSubscriber == Init /\ [][NextSubscriber]_vars

(***************************************************************************)
(* onUse hooks that call back: the medkit's hook, while useItem waits for  *)
(* it (line 234), makes no call or one call on the same player.            *)
(***************************************************************************)
InOnUseHook ==
    /\ calls # <<>>
    /\ Top.op = "useItem" /\ Top.pc = "onUse" /\ ~Top.nested

HookKeys == {"item_medkit", "item_tool"}
HookData == {Undef, ObjA1, ObjA2}

\* The ledger built from the empty inventory of playerJoin with giveItem,
\* useItem and removeItem only; the hook calls giveItem or removeItem.
NextHooks ==
    \/ \E i \in 1..Len(Registrations) :
          /\ Len(items.own) = i - 1
          /\ AddItem(JsStr(Registrations[i][1]), JsStr("Name"), JsStr(""),
                     Registrations[i][2], TRUE)
    \/ PlayerJoin("p1")
    \/ /\ calls = <<>>
       /\ \E k \in HookKeys, n \in 1..MaxTotal, d \in HookData :
             GiveItem("p1", k, JsInt(n), d, TRUE)
    \/ /\ InOnUseHook
       /\ \E k \in HookKeys, d \in HookData :
             GiveItem(Top.p, k, JsInt(1), d, FALSE)
    \/ GiveItemReturn
    \/ /\ calls = <<>>
       /\ \E i \in 0..(MaxLen - 1) : UseItem("p1", JsInt(i), TRUE)
    \/ UseItemEmit
    \/ UseItemReturn
    \/ /\ calls = <<>>
       /\ \E i \in 0..(MaxLen - 1), n \in 1..2 :
             RemoveItem("p1", JsInt(i), JsInt(n), TRUE)
    \/ /\ InOnUseHook
       /\ \E i \in 0..(MaxLen - 1), a \in {JsInt(1), JsUndefNum} :
             RemoveItem(Top.p, JsInt(i), a, FALSE)
    \/ RemoveItemCheck
    \/ RemoveItemReturn

SpecHooks == Init /\ [][NextHooks]_vars

\* Arrays a hook installs with setInventory.
HookArrays == { <<>>, <<Stack("item_tool", 1, Undef)>> }

\* Using stacks of any origin: the host gives, loads arrays through
\* setInventory (stacks of unregistered keys among them) and uses; the
\* medkit's hook calls removeItem, giveItem or setInventory.
NextUse ==
    \/ \E i \in 1..Len(Registrations) :
          /\ Len(items.own) = i - 1
          /\ AddItem(JsStr(Registrations[i][1]), JsStr("Name"), JsStr(""),
                     Registrations[i][2], TRUE)
    \/ PlayerJoin("p1")
    \/ /\ calls = <<>>
       /\ \E k \in HookKeys, n \in 1..2 : GiveItem("p1", k, JsInt(n), Undef, TRUE)
    \/ /\ InOnUseHook
       /\ \E k \in HookKeys : GiveItem(Top.p, k, JsInt(1), Undef, FALSE)
    \/ GiveItemReturn
    \/ /\ calls = <<>>
       /\ \E s \in LoadedArrays : SetInventory("p1", NewArray(s), TRUE)
    \/ /\ InOnUseHook
       /\ \E s \in HookArrays : SetInventory(Top.p, NewArray(s), FALSE)
    \/ SetInventoryReturn
    \/ /\ calls = <<>>
       /\ \E i \in 0..(MaxLen - 1) : UseItem("p1", JsInt(i), TRUE)
    \/ UseItemEmit
    \/ UseItemReturn
    \/ /\ InOnUseHook
       /\ \E i \in 0..(MaxLen - 1) : RemoveItem(Top.p, JsInt(i), JsInt(1), FALSE)
    \/ RemoveItemCheck
    \/ RemoveItemReturn

SpecUse == Init /\ [][NextUse]_vars

TypeOK ==
    /\ Len(calls) <= MaxDepth
    /\ Len(events) <= MaxEvents

(***************************************************************************)
(* What the claims speak of.                                               *)
(***************************************************************************)
\* Deep structural equality of two payloads, as the specification words it.
StructurallyEqual(a, b) == a.c = b.c

\* What an event carries, without the bookkeeping of the model.
Payload(e) ==
    [ev |-> e.ev, p |-> e.p, idx |-> e.idx, key |-> e.key, amount |-> e.amount,
     data |-> e.data]
ExpectedEvent(ev, p, idx, key, amount, data) ==
    [ev |-> ev, p |-> p, idx |-> idx, key |-> key, amount |-> amount,
     data |-> data]

\* The events recorded since the returned call was made.
EventsOfDone ==
    [i \in 1..(Len(events) - done.ev0) |-> Payload(events[done.ev0 + i])]

\* The index (from 0) was that of a stack when the returned call was made.
DoneIndexExisted ==
    done.idx.t = "int" /\ done.idx.n >= 0 /\ done.idx.n < Len(done.pre)
\* The stack at that index.
DoneStack == done.pre[done.idx.n + 1]
DoneAmountGood == done.amount.t = "int" /\ done.amount.n >= 1

\* Stacks of seq that match key and data structurally (indices from 1).
Matching(seq, key, data) ==
    {i \in 1..Len(seq) : seq[i].key = key /\ StructurallyEqual(seq[i].data, data)}
FirstMatching(seq, key, data) ==
    CHOOSE i \in Matching(seq, key, data) : \A j \in Matching(seq, key, data) : i <= j

Registered(key) == \E i \in 1..Len(items.own) : items.own[i].key = key
DefinitionOf(key) ==
    items.own[CHOOSE i \in 1..Len(items.own) : items.own[i].key = key].def

(***************************************************************************)
(* C1: in every state, also those that hooks and listeners observe while   *)
(* a call runs, every stack of every player's inventory has amount >= 1.   *)
(* The code breaks it: setInventory installs any array, and removeItem     *)
(* emits itemRemoved while the stack it decremented is still in the array. *)
(***************************************************************************)
C1_AmountsPositive ==
    \A p \in Players :
        Joined(p) => \A i \in 1..Len(Inv(p)) : Inv(p)[i].amount >= 1

(***************************************************************************)
(* C2: give(key, amount, data) with a registered key and a positive        *)
(* integer amount returns true, and afterwards amountOfWithData(key, data) *)
(* and totalAmount() are what they were plus amount.  The code breaks it   *)
(* once a definition is registered under the key "hasOwnProperty": then    *)
(* inventoryScript.hasItem throws (see C10).                               *)
(***************************************************************************)
C2_GiveAddsAmount ==
    (/\ done.op = "giveItem" /\ ~done.nested
     /\ Registered(done.key) /\ DoneAmountGood)
    => /\ done.ret = "true"
       /\ GetItemAmountWithData(Inv(done.p), done.key, done.data) =
             GetItemAmountWithData(done.pre, done.key, done.data) + done.amount.n
       /\ GetTotalItemAmount(Inv(done.p)) =
             GetTotalItemAmount(done.pre) + done.amount.n

(***************************************************************************)
(* C3: a successful give merges exactly when a stack with the same key and *)
(* structurally equal data exists: then the number of stacks and the index *)
(* of the matching stack are unchanged and only that stack's amount        *)
(* changes; otherwise one stack {key, amount, data} is appended and the    *)
(* others are unchanged.  Either way amountOf(key) grows by the amount.    *)
(***************************************************************************)
GiveOutcome(pre, cur, key, n, data) ==
    /\ IF Matching(pre, key, data) # {}
         THEN LET i == FirstMatching(pre, key, data)
              IN  /\ Len(cur) = Len(pre)
                  /\ GetItemIndexWithData(cur, key, data) = i - 1
                  /\ GetItemIndexWithData(pre, key, data) = i - 1
                  /\ cur = [pre EXCEPT ![i].amount = @ + n]
         ELSE cur = pre \o <<Stack(key, n, data)>>
    /\ GetItemAmount(cur, key) = GetItemAmount(pre, key) + n

C3_GiveMergesOrAppends ==
    /\ (done.op = "giveItem" /\ done.ret = "true" /\ ~done.nested)
          => GiveOutcome(done.pre, Inv(done.p), done.key, done.amount.n, done.data)
    /\ (calls # <<>> /\ Top.op = "giveItem" /\ ~Top.nested)
          => GiveOutcome(Top.pre, Inv(Top.p), Top.key, Top.amount.n, Top.data)

\* give merged into a stack whose payload is another object of equal content,
\* in an inventory that holds a second stack of the same key
C3_Witness ==
    /\ done.op = "giveItem" /\ done.ret = "true"
    /\ \E i \in Matching(done.pre, done.key, done.data) :
          done.pre[i].data.id # done.data.id
    /\ \E j \in 1..Len(done.pre) :
          done.pre[j].key = done.key
          /\ ~StructurallyEqual(done.pre[j].data, done.data)

(***************************************************************************)
(* C4: in the medkit scenario (give 2, then useAt(0) whose hook calls      *)
(* removeAt(0, 1)) the claim has the events in the order itemAdded,        *)
(* itemUsed, itemRemoved and a final amountOf of 1.                        *)
(***************************************************************************)
MedkitScenario ==
    /\ calls = <<>>
    /\ done.op = "useItem" /\ done.ret = "true" /\ done.idx = JsInt(0)
    /\ done.nested
    /\ done.ev0 = 1
    /\ events[1].ev = "itemAdded" /\ events[1].amount = 2
    /\ done.pre = <<Stack("item_medkit", 2, events[1].data)>>

C4_EventOrderAsClaimed ==
    MedkitScenario
    => /\ EventNames(events) = <<"itemAdded", "itemUsed", "itemRemoved">>
       /\ GetItemAmount(Inv(done.p), "item_medkit") = 1

(***************************************************************************)
(* C4 as amended: in the medkit scenario the events come in the order      *)
(* itemAdded, itemRemoved, itemUsed and the final amountOf is 1; and the   *)
(* events of every call that the onUse hook of a useAt made are emitted    *)
(* before the itemUsed event of that useAt.                                *)
(***************************************************************************)
C4_HookEventsBeforeItemUsed ==
    /\ MedkitScenario
       => /\ EventNames(events) = <<"itemAdded", "itemRemoved", "itemUsed">>
          /\ GetItemAmount(Inv(done.p), "item_medkit") = 1
    /\ (done.op = "useItem" /\ done.ret = "true")
       => \A k \in (done.ev0 + 1)..Len(events) :
             (events[k].by = "onUse" /\ events[k].depth = done.depth + 1)
             => \E j \in (k + 1)..Len(events) :
                   events[j].ev = "itemUsed" /\ events[j].depth = done.depth

\* the medkit scenario has run to its end
C4_Witness == MedkitScenario /\ Len(events) = 3

(***************************************************************************)
(* C5: removeAt(i, n) on a stack whose amount equals n, with listeners     *)
(* that do not call back: returns true, deletes that stack, emits          *)
(* itemRemoved and then itemRemovedCompletely, one of each, and hasItem    *)
(* (key) is false afterwards when no other stack has the key.              *)
(***************************************************************************)
C5_RemoveWholeStack ==
    (/\ done.op = "removeItem" /\ ~done.nested
     /\ DoneIndexExisted /\ DoneAmountGood
     /\ DoneStack.amount = done.amount.n)
    => LET i == done.idx.n IN
       /\ done.ret = "true"
       /\ Inv(done.p) = SubSeq(done.pre, 1, i) \o SubSeq(done.pre, i + 2, Len(done.pre))
       /\ EventsOfDone =
            << ExpectedEvent("itemRemoved", done.p, i, DoneStack.key,
                             done.amount.n, DoneStack.data),
               ExpectedEvent("itemRemovedCompletely", done.p, 0, DoneStack.key,
                             0, DoneStack.data) >>
       /\ (\A j \in 1..Len(done.pre) : j # i + 1 => done.pre[j].key # DoneStack.key)
             => ~HasItem(Inv(done.p), DoneStack.key)

\* the whole of the first of two stacks was removed
C5_Witness ==
    /\ done.op = "removeItem" /\ done.ret = "true"
    /\ DoneIndexExisted /\ DoneAmountGood
    /\ DoneStack.amount = done.amount.n
    /\ done.idx.n = 0 /\ Len(done.pre) = 2

(***************************************************************************)
(* C6: removeAt(i, n) on a stack whose amount a is greater than n, with    *)
(* listeners that do not call back: returns true, keeps the stack at i     *)
(* with amount a - n, and emits one itemRemoved(actor, i, key, n, data)    *)
(* and no itemRemovedCompletely.                                           *)
(***************************************************************************)
C6_RemovePartOfStack ==
    (/\ done.op = "removeItem" /\ ~done.nested
     /\ DoneIndexExisted /\ DoneAmountGood
     /\ DoneStack.amount > done.amount.n)
    => LET i == done.idx.n IN
       /\ done.ret = "true"
       /\ Inv(done.p) = [done.pre EXCEPT ![i + 1].amount = @ - done.amount.n]
       /\ EventsOfDone =
            << ExpectedEvent("itemRemoved", done.p, i, DoneStack.key,
                             done.amount.n, DoneStack.data) >>

\* one unit of a stack of two was removed, with the default amount
C6_Witness ==
    /\ done.op = "removeItem" /\ done.ret = "true"
    /\ DoneIndexExisted /\ DoneAmountGood
    /\ DoneStack.amount = 2 /\ done.amount.n = 1
    /\ Len(Inv(done.p)) = Len(done.pre)

(***************************************************************************)
(* C7: give with an unregistered key, or with an amount that is not a      *)
(* positive integer, returns false, leaves the stacks as they were and     *)
(* emits no event.  The code breaks it once a definition is registered     *)
(* under the key "hasOwnProperty": then giveItem throws (see C10).         *)
(***************************************************************************)
C7_BadGiveRejected ==
    (done.op = "giveItem" /\ (~Registered(done.key) \/ ~DoneAmountGood))
    => /\ done.ret = "false"
       /\ Inv(done.p) = done.pre
       /\ Len(events) = done.ev0

(***************************************************************************)
(* C8: removeAt and useAt with an index at which no stack is, removeAt     *)
(* with an amount that is not a positive integer, and replaceInventory     *)
(* with something that is no array return false, throw nothing, emit no    *)
(* event and leave the inventory as it was.                                *)
(***************************************************************************)
C8_BadArgumentsRejected ==
    (\/ done.op \in {"removeItem", "useItem"} /\ ~DoneIndexExisted
     \/ done.op = "removeItem" /\ ~DoneAmountGood
     \/ done.op = "setInventory" /\ done.key = "notArray")
    => /\ done.ret = "false"
       /\ Len(events) = done.ev0
       /\ Inv(done.p) = done.pre

\* removeAt was called with the index just past the last stack
C8_Witness ==
    /\ done.op = "removeItem" /\ done.ret = "false"
    /\ done.pre # <<>>
    /\ done.idx = JsInt(Len(done.pre))

(***************************************************************************)
(* C9: useAt on a stack whose definition has no onUse hook returns true    *)
(* and emits one itemUsed(actor, index, key, data); and no useAt changes   *)
(* the inventory unless a call is made while it runs.                      *)
(***************************************************************************)
C9_UseLeavesInventory ==
    /\ (/\ done.op = "useItem" /\ DoneIndexExisted
        /\ Registered(DoneStack.key) /\ ~DefinitionOf(DoneStack.key).onUse)
       => /\ done.ret = "true"
          /\ ~done.nested =>
                EventsOfDone = << ExpectedEvent("itemUsed", done.p, done.idx.n,
                                                DoneStack.key, 0, DoneStack.data) >>
    /\ (done.op = "useItem" /\ ~done.nested) => Inv(done.p) = done.pre
    /\ (calls # <<>> /\ Top.op = "useItem" /\ ~Top.nested) => Inv(Top.p) = Top.pre

\* the tool, which has no hook, was used
C9_Witness ==
    /\ done.op = "useItem" /\ done.ret = "true" /\ DoneIndexExisted
    /\ DoneStack.key = "item_tool" /\ Registered("item_tool")
    /\ ~DefinitionOf("item_tool").onUse
    /\ Len(events) = 1

(***************************************************************************)
(* C10: a register call returns null exactly when the key is not a         *)
(* non-empty string, the name is not a non-empty string, the description   *)
(* is not a string or an earlier call registered the key; a rejected call  *)
(* emits no itemDefined, an accepted one emits one, and no key has two     *)
(* itemDefined events.  The code breaks it for the keys "__proto__" (the   *)
(* assignment sets the prototype, so the key never becomes an own          *)
(* property and can be registered again) and "hasOwnProperty" (once it is  *)
(* registered every later call throws).                                    *)
(***************************************************************************)
C10_RegisterRejectsExactly ==
    /\ done.op = "addItem"
       => LET key == done.args[1]
              name == done.args[2]
              description == done.args[3]
              malformed == \/ key.type # "string" \/ key.str = ""
                           \/ name.type # "string" \/ name.str = ""
                           \/ description.type # "string"
              duplicate == \E i \in 1..done.ev0 :
                              events[i].ev = "itemDefined" /\ events[i].key = key.str
              emitted == [i \in 1..(Len(events) - done.ev0) |->
                            <<events[done.ev0 + i].ev, events[done.ev0 + i].key,
                              events[done.ev0 + i].name,
                              events[done.ev0 + i].description>>]
          IN  IF malformed \/ duplicate
                THEN done.ret = "null" /\ emitted = <<>>
                ELSE /\ done.ret = "def"
                     /\ emitted = << <<"itemDefined", key.str, name.str,
                                       description.str>> >>
    /\ \A i, j \in 1..Len(events) :
          (i < j /\ events[i].ev = "itemDefined" /\ events[j].ev = "itemDefined")
          => events[i].key # events[j].key

(***************************************************************************)
(* Under SpecRegistry the observer never clears its log, so the itemDefined *)
(* events are the register calls that succeeded, in order.                 *)
(***************************************************************************)
\* Keys the host asks hasItem and getItem about.
ProbeKeys ==
    {"item_medkit", "2", "1", "__proto__", "hasOwnProperty", "toString",
     "item_none"}

DefinedEvents(key) ==
    {i \in 1..Len(events) : events[i].ev = "itemDefined" /\ events[i].key = key}
FirstDefined(key) ==
    events[CHOOSE i \in DefinedEvents(key) : \A j \in DefinedEvents(key) : i <= j]

RECURSIVE DefinedKeys(_)
DefinedKeys(evs) ==
    IF evs = <<>> THEN <<>>
    ELSE IF Head(evs).ev = "itemDefined"
      THEN <<Head(evs).key>> \o DefinedKeys(Tail(evs))
    ELSE DefinedKeys(Tail(evs))

(***************************************************************************)
(* C11: for every key, exists(key) is true exactly when an earlier         *)
(* register(key, ...) succeeded; lookup(key) is then the definition that   *)
(* call stored, unchanged ever after, and is absent otherwise.  The code   *)
(* breaks it: _items is a plain object, so lookup of an unregistered key   *)
(* that Object.prototype has (toString) is not absent, exists("__proto__") *)
(* stays false after its registration succeeded, and exists throws once    *)
(* "hasOwnProperty" is registered.                                         *)
(***************************************************************************)
C11_LookupMatchesRegistrations ==
    \A key \in ProbeKeys :
        IF DefinedEvents(key) # {}
          THEN /\ ScriptHasItem(key) = "true"
               /\ GetItem(key).kind = "def"
               /\ GetItem(key).def.name = FirstDefined(key).name
               /\ GetItem(key).def.description = FirstDefined(key).description
          ELSE /\ ScriptHasItem(key) = "false"
               /\ GetItem(key).kind = "undefined"

(***************************************************************************)
(* C12: listKeys() is the sequence of the registered keys, each once, in   *)
(* the order of their registration.  The code breaks it for keys that are  *)
(* array indices ("1", "2"): Object.keys lists those first, in ascending   *)
(* numeric order.  (Stated for registries whose prototype was not replaced *)
(* through the key "__proto__", which listKeys never lists: see C10.)      *)
(***************************************************************************)
C12_ListKeysInInsertionOrder ==
    (items.proto = <<>> /\ "hasOwnProperty" \notin OwnKeys(items))
    => GetAllItems = DefinedKeys(events)

(***************************************************************************)
(* C15: when a successful removeAt(i, n) deletes the stack at i (it emits  *)
(* itemRemovedCompletely), the stacks below i are unchanged and every      *)
(* stack that was at j > i is at j - 1, unchanged, so the length drops by  *)
(* one; when it does not delete it, the length and every stack but the one *)
(* at i are unchanged.  For calls during which no listener calls back.     *)
(***************************************************************************)
DoneDeleted ==
    \E k \in 1..Len(EventsOfDone) : EventsOfDone[k].ev = "itemRemovedCompletely"

C15_RemoveKeepsOtherStacks ==
    (done.op = "removeItem" /\ done.ret = "true" /\ ~done.nested)
    => LET i == done.idx.n
           pre == done.pre
           cur == Inv(done.p)
       IN  IF DoneDeleted
             THEN /\ Len(cur) = Len(pre) - 1
                  /\ \A j \in 1..i : cur[j] = pre[j]
                  /\ \A j \in (i + 2)..Len(pre) : cur[j - 1] = pre[j]
             ELSE /\ Len(cur) = Len(pre)
                  /\ \A j \in 1..Len(pre) : j # i + 1 => cur[j] = pre[j]

\* the first of two stacks was deleted and the second is now the first
C15_Witness ==
    /\ done.op = "removeItem" /\ done.ret = "true" /\ DoneDeleted
    /\ done.idx.n = 0 /\ Len(done.pre) = 2
    /\ Inv(done.p) = <<done.pre[2]>>

(***************************************************************************)
(* C16: removeAt(i, n) with n greater than the amount a of the stack at i  *)
(* returns true, emits itemRemoved with amount n, deletes the stack, emits *)
(* itemRemovedCompletely, and totalAmount() is a less than it was.  For    *)
(* calls during which no listener calls back.                              *)
(***************************************************************************)
C16_RemoveMoreThanStack ==
    (/\ done.op = "removeItem" /\ ~done.nested
     /\ DoneIndexExisted /\ DoneAmountGood
     /\ done.amount.n > DoneStack.amount)
    => LET i == done.idx.n IN
       /\ done.ret = "true"
       /\ EventsOfDone =
            << ExpectedEvent("itemRemoved", done.p, i, DoneStack.key,
                             done.amount.n, DoneStack.data),
               ExpectedEvent("itemRemovedCompletely", done.p, 0, DoneStack.key,
                             0, DoneStack.data) >>
       /\ Len(Inv(done.p)) = Len(done.pre) - 1
       /\ GetTotalItemAmount(Inv(done.p)) =
             GetTotalItemAmount(done.pre) - DoneStack.amount

\* three units were asked of a stack of two, next to a stack that stays
C16_Witness ==
    /\ done.op = "removeItem" /\ done.ret = "true"
    /\ DoneIndexExisted /\ DoneStack.amount = 2 /\ done.amount = JsInt(3)
    /\ Len(done.pre) = 2 /\ GetTotalItemAmount(Inv(done.p)) = 1

(***************************************************************************)
(* C13: a successful replaceInventory emits one inventoryReplaced(actor,   *)
(* old, new) where old is the inventory the actor held just before and new *)
(* the one it holds just after; and when replaceInventory is called again  *)
(* right after it with the old array of that event, the actor's inventory  *)
(* is, by value, what it was before the first call.  For calls during      *)
(* which no listener calls back.                                           *)
(***************************************************************************)
ReplacedEventOf(p, pre, ev0) ==
    /\ Len(events) = ev0 + 1
    /\ events[ev0 + 1].ev = "inventoryReplaced"
    /\ events[ev0 + 1].p = p
    /\ arrays[events[ev0 + 1].old] = pre
    /\ events[ev0 + 1].new = inventory[p]

C13_OneEventOldAndNew ==
    /\ (done.op = "setInventory" /\ done.ret = "true" /\ ~done.nested)
          => ReplacedEventOf(done.p, done.pre, done.ev0)
    /\ (calls # <<>> /\ Top.op = "setInventory" /\ ~Top.nested)
          => ReplacedEventOf(Top.p, Top.pre, Top.ev0)

\* this step calls setInventory on the same player, right after a
\* setInventory that returned true, with the old array of its event
SecondCallWithOld ==
    /\ calls = <<>>
    /\ done.op = "setInventory" /\ done.ret = "true" /\ ~done.nested
    /\ Len(calls') = 1
    /\ calls'[1].op = "setInventory" /\ calls'[1].p = done.p
    /\ Len(events') = Len(events) + 1
    /\ events'[Len(events')].new = events'[Len(events)].old

C13_ReplaceRoundTrip ==
    /\ []C13_OneEventOldAndNew
    /\ [][SecondCallWithOld => arrays'[inventory'[done.p]] = done.pre]_vars

\* the second of two setInventory calls has put back the array the first
\* had replaced, which holds a stack that the array in between did not
C13_Witness ==
    /\ calls = <<>>
    /\ done.op = "setInventory" /\ done.ret = "true" /\ ~done.nested
    /\ Len(events) >= 2 /\ done.ev0 = Len(events) - 1
    /\ events[Len(events) - 1].ev = "inventoryReplaced"
    /\ events[Len(events) - 1].p = done.p
    /\ events[Len(events)].new = events[Len(events) - 1].old
    /\ events[Len(events)].old = events[Len(events) - 1].new
    /\ Inv(done.p) # <<>> /\ Inv(done.p) # done.pre

(***************************************************************************)
(* C14: an operation on one actor leaves the inventory of every other      *)
(* actor as it was.  The code breaks it: setInventory stores the array it  *)
(* is given, so after A.setInventory(B.getInventory()) the two players     *)
(* hold one array and a give to A is a give to B.                          *)
(***************************************************************************)
\* the player on whom the function that takes this step was called
StepActor ==
    IF Len(calls') > Len(calls) THEN calls'[Len(calls')].p
    ELSE IF calls # <<>> THEN Top.p
    ELSE done'.p

C14_OthersUnchanged ==
    [][\A q \in Players :
          (Joined(q) /\ q # StepActor) => arrays'[inventory'[q]] = Inv(q)]_vars

(***************************************************************************)
(* C18: whatever a subscriber of itemRemoved does to the inventory while   *)
(* it is notified, removeAt completes without raising, and the stack it    *)
(* then tests and deletes is the stack it decremented.  The code breaks    *)
(* it: after the emit of line 255, line 257 reads this._inventory[itemIdx] *)
(* again, which is undefined (TypeError) when the subscriber emptied or    *)
(* shortened the array, and another stack when the subscriber's calls      *)
(* moved one to that index.                                                *)
(***************************************************************************)
\* this step is the splice of line 258
RemoveItemDeletes ==
    /\ calls # <<>> /\ Top.op = "removeItem" /\ Top.pc = "emitRemoved"
    /\ Len(calls') = Len(calls)
    /\ calls'[Len(calls')].pc = "emitRemovedCompletely"

C18_RemoveSafeWithSubscribers ==
    /\ [](done.op = "removeItem" => done.ret # "TypeError")
    /\ [][RemoveItemDeletes =>
             /\ At(Inv(Top.p), Top.idx.n).key = Top.key
             /\ At(Inv(Top.p), Top.idx.n).data = Top.data]_vars

(***************************************************************************)
(* C19: from the empty inventory of playerJoin, with give, useAt (whose    *)
(* hooks call give and removeAt) and removeAt only, no inventory ever      *)
(* holds two stacks with the same key and structurally equal data; so for  *)
(* every stack, indexOfWithData(key, data) is its index and                *)
(* amountOfWithData(key, data) is its amount.                              *)
(***************************************************************************)
C19_NoDuplicateStacks ==
    \A p \in Players :
        Joined(p) =>
            /\ \A i, j \in 1..Len(Inv(p)) :
                  (i < j /\ Inv(p)[i].key = Inv(p)[j].key)
                  => ~StructurallyEqual(Inv(p)[i].data, Inv(p)[j].data)
            /\ \A i \in 1..Len(Inv(p)) :
                  /\ GetItemIndexWithData(Inv(p), Inv(p)[i].key, Inv(p)[i].data) = i - 1
                  /\ GetItemAmountWithData(Inv(p), Inv(p)[i].key, Inv(p)[i].data) =
                        Inv(p)[i].amount

\* a hook gave a key with a payload object whose content an existing stack
\* of that key already has in another object, next to a second stack
C19_Witness ==
    /\ done.op = "giveItem" /\ done.ret = "true" /\ done.by = "onUse"
    /\ \E i \in Matching(done.pre, done.key, done.data) :
          done.pre[i].data.id # done.data.id
    /\ Len(done.pre) = 2 /\ Len(Inv(done.p)) = 2

(***************************************************************************)
(* C17: every useAt(index) on an existing stack returns true and emits one *)
(* itemUsed, after the hook's events, carrying the index and the key and   *)
(* data the stack at that index had when useAt was called: with or without *)
(* a hook, for registered and unregistered keys, and also when the hook    *)
(* removed or replaced that stack.  What the hook did to the inventory is  *)
(* in place when useAt returns: the steps useItem takes after the hook     *)
(* leave the inventory as the hook left it.                                *)
(***************************************************************************)
\* the events of the returned call that it emitted itself
OwnEventsOfDone ==
    {k \in (done.ev0 + 1)..Len(events) : events[k].depth = done.depth}

\* this step is taken by useItem itself: the emit of line 236 or the return
UseItemContinues ==
    /\ calls # <<>> /\ Top.op = "useItem"
    /\ Len(calls') <= Len(calls)

C17_UseEmitsItemUsed ==
    /\ []((done.op = "useItem" /\ DoneIndexExisted)
            => /\ done.ret = "true"
               /\ OwnEventsOfDone = {Len(events)}
               /\ Payload(events[Len(events)]) =
                     ExpectedEvent("itemUsed", done.p, done.idx.n, DoneStack.key,
                                   0, DoneStack.data))
    /\ [][UseItemContinues => arrays'[inventory'[Top.p]] = Inv(Top.p)]_vars

\* the hook replaced the inventory: another key is at the index, or nothing
C17_Witness ==
    /\ done.op = "useItem" /\ done.ret = "true" /\ done.nested
    /\ DoneIndexExisted
    /\ Len(events) >= 2
    /\ events[Len(events)].ev = "itemUsed"
    /\ events[Len(events) - 1].ev = "inventoryReplaced"
    /\ HasIndex(Inv(done.p), done.idx.n)
          => At(Inv(done.p), done.idx.n).key # DoneStack.key
====
